---- MODULE Spec2Model ----
(***************************************************************************)
(* VirtualGrid (vue-virtual-grid): the loading state machine driven by     *)
(* mount / scroll / resize / resetGrid and the results of updateFunction,  *)
(* and the three computed stages computeConfigData -> computeLayoutData -> *)
(* computeRenderData.                                                      *)
(*                                                                         *)
(* Numbers are integers.  Math.round(n / d) is computed exactly on the     *)
(* rational n / d (round half up, as Math.round does).  The non-finite     *)
(* IEEE values that the code produces when columnCount is 0 are kept as    *)
(* the strings "Infinity", "-Infinity" and "NaN".                          *)
(***************************************************************************)
EXTENDS Integers, Sequences, FiniteSets, TLC

VARIABLES
    \* ---- component fields and the loading protocol ----
    ref,            \* FALSE while this.ref is null, TRUE once mounted() has set it
    tickPending,    \* the $nextTick callback of initiliazeGrid is scheduled
    listening,      \* the resize / scroll listeners are registered
    updateLock,     \* this.updateLock
    bottomReached,  \* this.bottomReached
    containerData,  \* this.containerData
    outstanding,    \* promises of updateFunction() neither resolved nor rejected
    callCount,      \* calls of updateFunction so far, modulo CallWrap
    invoked,        \* the last step called updateFunction
    lastEvent,      \* the handler or continuation that made the last step
    \* ---- the computed pipeline ----
    items,          \* the items prop
    stage,          \* how far the getters have been evaluated
    configData,     \* get configData()
    layoutData,     \* get layoutData()
    renderData      \* get renderData()

vars == <<ref, tickPending, listening, updateLock, bottomReached, containerData,
          outstanding, callCount, invoked, lastEvent,
          items, stage, configData, layoutData, renderData>>

loadVars == <<ref, tickPending, listening, updateLock, bottomReached,
              outstanding, callCount, invoked, lastEvent>>

pipeVars == <<items, stage, configData, layoutData, renderData>>

----------------------------------------------------------------------------
\* Bounds of the model

\* the items prop holds at most MaxItems items
MaxItems == 2

\* callCount is kept modulo CallWrap
CallWrap == 2

----------------------------------------------------------------------------
\* Arithmetic

Max(a, b) == IF a >= b THEN a ELSE b

Min(a, b) == IF a <= b THEN a ELSE b

\* Math.round(n / d) for d > 0: the nearest integer, halves towards +Infinity
Round(n, d) == (2 * n + d) \div (2 * d)

\* the sign of k times a non-finite value, as IEEE multiplication gives it
NonFinite(sign) ==
    IF sign > 0 THEN "Infinity" ELSE IF sign < 0 THEN "-Infinity" ELSE "NaN"

SignOf(x) ==
    IF x = "Infinity" THEN 1 ELSE IF x = "-Infinity" THEN -1 ELSE 0

----------------------------------------------------------------------------
\* Props and initial field values

updateTriggerMargin == 500

\* containerData as the field initialiser sets it
InitialContainerData ==
    [size |-> [height |-> 0, width |-> 0],
     scroll |-> [x |-> 0, y |-> 0],
     elementOffset |-> 0,
     elementSize |-> [height |-> 0, width |-> 0]]

\* what getSize / getScroll / getElementOffset / getElementSize may read from
\* the DOM when the loading protocol samples it
LoadHeights == {0, 600}
LoadScrollYs == {0, 400}
LoadElementHeights == {0, 1100, 2000}

Geometries ==
    {[size |-> [height |-> h, width |-> 750],
      scroll |-> [x |-> 0, y |-> y],
      elementOffset |-> 0,
      elementSize |-> [height |-> eh, width |-> 750]] :
        h \in LoadHeights, y \in LoadScrollYs, eh \in LoadElementHeights}

----------------------------------------------------------------------------
\* The loading state machine

\* mutant: the window bottom must pass the trigger, reaching it is not enough
TriggerReachedStrict(cd) ==
    cd.scroll.y + cd.size.height >
        Max(0, cd.elementOffset + cd.elementSize.height - updateTriggerMargin)

\* windowBottom >= bottomTrigger
TriggerReached(cd) ==
    LET windowTop == cd.scroll.y
        windowBottom == windowTop + cd.size.height
        bottomTrigger ==
            Max(0, cd.elementOffset + cd.elementSize.height - updateTriggerMargin)
    IN  windowBottom >= bottomTrigger

\* mutant: the lock is not consulted
ShouldLoadIgnoringLock(cd, locked, reached) == ~reached /\ TriggerReached(cd)

\* mutant: bottomReached is not consulted
ShouldLoadIgnoringBottom(cd, locked, reached) == TriggerReached(cd) /\ ~locked

\* the condition of the if in loadMoreDataAsync
ShouldLoad(cd, locked, reached) == ~reached /\ TriggerReached(cd) /\ ~locked

\* computeContainerData: keeps the old value while ref is null
ComputeContainerData(g) == IF ref THEN g ELSE containerData

\* loadMoreDataAsync up to its first await, entered with updateLock = locked,
\* bottomReached = reached and `pending` promises outstanding; g is what the
\* DOM shows when it is sampled
LoadMoreDataAsync(g, locked, reached, pending) ==
    /\ containerData' = ComputeContainerData(g)
    /\ bottomReached' = reached
    /\ IF ShouldLoad(containerData', locked, reached)
       THEN /\ updateLock' = TRUE
            /\ invoked' = TRUE
            /\ outstanding' = pending + 1
            /\ callCount' = (callCount + 1) % CallWrap
       ELSE /\ updateLock' = locked
            /\ invoked' = FALSE
            /\ outstanding' = pending
            /\ callCount' = callCount

\* mounted(): sets ref, samples the DOM, schedules the first load, registers
\* the listeners
Mounted(g) ==
    /\ ~ref
    /\ ref' = TRUE
    /\ containerData' = g
    /\ tickPending' = TRUE
    /\ listening' = TRUE
    /\ invoked' = FALSE
    /\ lastEvent' = "mounted"
    /\ UNCHANGED <<updateLock, bottomReached, outstanding, callCount>>
    /\ UNCHANGED pipeVars

\* the $nextTick callback of initiliazeGrid
NextTick(g) ==
    /\ tickPending
    /\ tickPending' = FALSE
    /\ LoadMoreDataAsync(g, updateLock, bottomReached, outstanding)
    /\ lastEvent' = "nextTick"
    /\ UNCHANGED <<ref, listening>>
    /\ UNCHANGED pipeVars

\* scroll(): an event task, so it runs after the pending microtask
Scroll(g) ==
    /\ listening /\ ~tickPending
    /\ LoadMoreDataAsync(g, updateLock, bottomReached, outstanding)
    /\ lastEvent' = "scroll"
    /\ UNCHANGED <<ref, listening, tickPending>>
    /\ UNCHANGED pipeVars

\* resize()
Resize(g) ==
    /\ listening /\ ~tickPending
    /\ LoadMoreDataAsync(g, updateLock, bottomReached, outstanding)
    /\ lastEvent' = "resize"
    /\ UNCHANGED <<ref, listening, tickPending>>
    /\ UNCHANGED pipeVars

\* resetGrid(), called by the parent on the live component
ResetGrid(g) ==
    /\ ref /\ listening
    /\ LoadMoreDataAsync(g, updateLock, FALSE, outstanding)
    /\ lastEvent' = "resetGrid"
    /\ UNCHANGED <<ref, listening, tickPending>>
    /\ UNCHANGED pipeVars

\* the promise of updateFunction() resolves with isLastBatch: the
\* continuation sets bottomReached, clears the lock and calls
\* loadMoreDataAsync again, all in one task
FetchResolved(isLastBatch, g) ==
    /\ outstanding > 0
    /\ LoadMoreDataAsync(g, FALSE, bottomReached \/ isLastBatch, outstanding - 1)
    /\ lastEvent' = "resolved"
    /\ UNCHANGED <<ref, listening, tickPending>>
    /\ UNCHANGED pipeVars

\* the promise of updateFunction() rejects: the await throws, the rest of
\* loadMoreDataAsync is skipped and loadMoreData's catch logs the error
FetchRejected ==
    /\ outstanding > 0
    /\ outstanding' = outstanding - 1
    /\ invoked' = FALSE
    /\ lastEvent' = "rejected"
    /\ UNCHANGED <<ref, listening, tickPending, updateLock, bottomReached,
                   containerData, callCount>>
    /\ UNCHANGED pipeVars

\* beforeDestroy(): removes the listeners
BeforeDestroy ==
    /\ listening
    /\ listening' = FALSE
    /\ invoked' = FALSE
    /\ lastEvent' = "beforeDestroy"
    /\ UNCHANGED <<ref, tickPending, updateLock, bottomReached, containerData,
                   outstanding, callCount>>
    /\ UNCHANGED pipeVars

----------------------------------------------------------------------------
\* The computed pipeline: inputs

\* natural sizes of the items; width 0 stands for an unset width
ItemShapes ==
    {[width |-> 0, height |-> 10],
     [width |-> 1, height |-> 1],
     [width |-> 2, height |-> 1]}

ColumnSpans == {0, 1, 2, 4}

Items ==
    {[width |-> s.width, height |-> s.height, columnSpan |-> c, newRow |-> n] :
        s \in ItemShapes, c \in ColumnSpans, n \in BOOLEAN}

ItemLists == UNION {[1..n -> Items] : n \in 0..MaxItems}

PipeElementWidths == {0, 249, 250, 500, 750}
PipeHeights == {0, 600}
PipeScrollYs == {0, 10, 11}
PipeElementOffsets == {0, 1}

PipeContainers ==
    {[size |-> [height |-> h, width |-> w],
      scroll |-> [x |-> 0, y |-> y],
      elementOffset |-> o,
      elementSize |-> [height |-> 0, width |-> w]] :
        w \in PipeElementWidths, h \in PipeHeights,
        y \in PipeScrollYs, o \in PipeElementOffsets}

----------------------------------------------------------------------------
\* computeConfigData

getColumnCount(elementWidth) == elementWidth \div 250

getGridGap(elementWidth, windowHeight) ==
    IF elementWidth > 720 /\ windowHeight > 480 THEN 10 ELSE 5

getWindowMargin(windowHeight) == Round(3 * windowHeight, 2)

\* Math.round(columnWidth * (height / width)), width > 0
getItemRatioHeight(height, width, columnWidth) == Round(columnWidth * height, width)

\* Math.round((elementWidth - totalGapSpace) / columnCount); a division by
\* zero gives a non-finite value
getColumnWidth(columnCount, gridGap, elementWidth) ==
    LET totalGapSpace == (columnCount - 1) * gridGap
    IN  IF columnCount = 0
        THEN NonFinite(elementWidth - totalGapSpace)
        ELSE Round(elementWidth - totalGapSpace, columnCount)

\* columnWidth * item.columnSpan + gridGap * (item.columnSpan - 1)
ImageWidth(columnCount, columnWidth, gridGap, columnSpan) ==
    IF columnCount = 0
    THEN NonFinite(SignOf(columnWidth) * columnSpan)
    ELSE columnWidth * columnSpan + gridGap * (columnSpan - 1)

\* the callback of items.map
ConfigEntry(item, columnCount, columnWidth, gridGap) ==
    IF item.width = 0
    THEN item
    ELSE LET imageWidth == ImageWidth(columnCount, columnWidth, gridGap, item.columnSpan)
         IN  [item EXCEPT
                !.height = IF columnCount = 0
                           THEN NonFinite(SignOf(imageWidth) * item.height)
                           ELSE getItemRatioHeight(item.height, item.width, imageWidth),
                !.width = imageWidth]

computeConfigData(cd, its) ==
    LET elementWidth == cd.elementSize.width
        windowMargin == getWindowMargin(cd.size.height)
        gridGap == getGridGap(elementWidth, cd.size.height)
        columnCount == getColumnCount(elementWidth)
        columnWidth == getColumnWidth(columnCount, gridGap, elementWidth)
    IN  [windowMargin |-> windowMargin,
         gridGap |-> gridGap,
         columnCount |-> columnCount,
         entries |-> [i \in 1..Len(its) |->
                        ConfigEntry(its[i], columnCount, columnWidth, gridGap)]]

----------------------------------------------------------------------------
\* computeLayoutData

\* mutant: the overflow test is off by one column
OverlapNumberLate(columnNumber, columnSpan, columnCount) ==
    IF columnNumber + columnSpan > columnCount + 2
    THEN columnNumber + columnSpan - columnCount - 1
    ELSE 0

\* the number of columns by which the entry goes out of the grid
OverlapNumber(columnNumber, columnSpan, columnCount) ==
    IF columnNumber + columnSpan > columnCount + 1
    THEN columnNumber + columnSpan - columnCount - 1
    ELSE 0

\* mutant: columns of a multi-column cell are not reserved
SpanShiftNone(columnSpan) == 0

\* the shift created by a multiple column object
SpanShift(columnSpan) == IF columnSpan > 1 THEN columnSpan - 1 ELSE 0

\* the locals of computeLayoutData before the map
LayoutStart ==
    [currentRowNumber |-> 1,
     prevRowsTotalHeight |-> 0,
     currentRowMaxHeight |-> 0,
     columnShift |-> 0,
     cells |-> <<>>]

\* the callback of configData.entries.map, for the entry at 0-based index
LayoutStep(st, entry, index, columnCount, gridGap) ==
    LET columnSpanFull ==
            IF entry.columnSpan < 1 THEN columnCount ELSE entry.columnSpan
        distanceToRowStart == (index + st.columnShift) % columnCount
        columnShiftRow ==
            IF entry.newRow /\ distanceToRowStart # 0
            THEN st.columnShift + (columnCount - distanceToRowStart)
            ELSE st.columnShift
        shiftedIndex == index + columnShiftRow
        columnNumber == (shiftedIndex % columnCount) + 1
        rowNumber == (shiftedIndex \div columnCount) + 1
        overlapNumber == OverlapNumber(columnNumber, columnSpanFull, columnCount)
        \* Math.round(heightRecompute * (1 - overlapNumber / columnSpanRecompute))
        \* when the entry is clipped, Math.round(entry.height) otherwise
        height ==
            IF overlapNumber > 0
            THEN Round(entry.height * (columnSpanFull - overlapNumber), columnSpanFull)
            ELSE entry.height
        columnSpanRecompute == columnSpanFull - overlapNumber
        columnShiftNext == columnShiftRow + SpanShift(columnSpanRecompute)
        rowChanged == rowNumber # st.currentRowNumber
        prevRowsTotalHeight ==
            IF rowChanged
            THEN st.prevRowsTotalHeight + st.currentRowMaxHeight + gridGap
            ELSE st.prevRowsTotalHeight
        rowMaxBefore == IF rowChanged THEN 0 ELSE st.currentRowMaxHeight
        cell == [width |-> entry.width,
                 height |-> height,
                 columnSpan |-> columnSpanRecompute,
                 newRow |-> entry.newRow,
                 columnNumber |-> columnNumber,
                 rowNumber |-> rowNumber,
                 offset |-> prevRowsTotalHeight]
    IN  [currentRowNumber |-> rowNumber,
         prevRowsTotalHeight |-> prevRowsTotalHeight,
         currentRowMaxHeight |-> Max(rowMaxBefore, height),
         columnShift |-> columnShiftNext,
         cells |-> Append(st.cells, cell)]

RECURSIVE LayoutFold(_, _, _)
\* the map over the first n entries of config
LayoutFold(config, n, st) ==
    IF n = 0
    THEN st
    ELSE LayoutStep(LayoutFold(config, n - 1, st), config.entries[n], n - 1,
                    config.columnCount, config.gridGap)

computeLayoutData(config) ==
    LET end == LayoutFold(config, Len(config.entries), LayoutStart)
    IN  [cells |-> end.cells,
         totalHeight |-> end.prevRowsTotalHeight + end.currentRowMaxHeight]

----------------------------------------------------------------------------
\* computeRenderData

\* neither of the two continue statements of the loop is taken
CellInWindow(cell, config, cd) ==
    LET elementOffset == cd.elementOffset
        cellTop == elementOffset + cell.offset
        cellBottom == cellTop + cell.height
        windowTop == cd.scroll.y
        windowBottom == windowTop + cd.size.height
        renderTop == windowTop - config.windowMargin
        renderBottom == windowBottom + config.windowMargin
    IN  ~(cellTop > renderBottom) /\ ~(cellBottom < renderTop)

\* the locals of computeRenderData before the loop
RenderStart ==
    [cellsToRender |-> <<>>,
     firstRenderedRowNumber |-> "null",
     firstRenderedRowOffset |-> "null"]

\* one iteration of the loop over layoutData.cells
RenderStep(st, cell, config, cd) ==
    IF ~CellInWindow(cell, config, cd)
    THEN st
    ELSE LET \* firstRenderedRowNumber is null until the first cell is pushed
             first ==
                 IF st.cellsToRender = <<>> THEN cell.rowNumber
                 ELSE st.firstRenderedRowNumber
             \* a null or 0 firstRenderedRowOffset is falsy
             offset ==
                 IF cell.rowNumber # first THEN st.firstRenderedRowOffset
                 ELSE IF st.cellsToRender = <<>> THEN cell.offset
                 ELSE IF st.firstRenderedRowOffset = 0 THEN cell.offset
                 ELSE Min(st.firstRenderedRowOffset, cell.offset)
         IN  [cellsToRender |-> Append(st.cellsToRender, cell),
              firstRenderedRowNumber |-> first,
              firstRenderedRowOffset |-> offset]

RECURSIVE RenderFold(_, _, _, _, _)
\* the loop over the first n cells
RenderFold(cells, n, config, cd, st) ==
    IF n = 0
    THEN st
    ELSE RenderStep(RenderFold(cells, n - 1, config, cd, st), cells[n], config, cd)

computeRenderData(config, cd, layout) ==
    RenderFold(layout.cells, Len(layout.cells), config, cd, RenderStart)

----------------------------------------------------------------------------
\* The getters, evaluated in dependency order

\* what the getters return before they are evaluated
NoConfig == [windowMargin |-> 0, gridGap |-> 0, columnCount |-> 1, entries |-> <<>>]
NoLayout == [cells |-> <<>>, totalHeight |-> 0]
NoRender == RenderStart

\* get configData()
GetConfigData ==
    /\ stage = "input"
    /\ configData' = computeConfigData(containerData, items)
    /\ stage' = "config"
    /\ UNCHANGED <<items, layoutData, renderData, containerData>>
    /\ UNCHANGED loadVars

\* get layoutData(); with columnCount = 0 every column number is NaN
\* (index % 0) and the layout is outside this model
GetLayoutData ==
    /\ stage = "config"
    /\ configData.columnCount >= 1
    /\ layoutData' = computeLayoutData(configData)
    /\ stage' = "layout"
    /\ UNCHANGED <<items, configData, renderData, containerData>>
    /\ UNCHANGED loadVars

\* get renderData()
GetRenderData ==
    /\ stage = "layout"
    /\ renderData' = computeRenderData(configData, containerData, layoutData)
    /\ stage' = "render"
    /\ UNCHANGED <<items, configData, layoutData, containerData>>
    /\ UNCHANGED loadVars

----------------------------------------------------------------------------
\* Specifications

LoadInit ==
    /\ ref = FALSE
    /\ tickPending = FALSE
    /\ listening = FALSE
    /\ updateLock = FALSE
    /\ bottomReached = FALSE
    /\ outstanding = 0
    /\ callCount = 0
    /\ invoked = FALSE
    /\ lastEvent = "created"

\* the component after construction, with an empty items prop
Init ==
    /\ LoadInit
    /\ containerData = InitialContainerData
    /\ items = <<>>
    /\ stage = "idle"
    /\ configData = NoConfig
    /\ layoutData = NoLayout
    /\ renderData = NoRender

Next ==
    \/ \E g \in Geometries : Mounted(g)
    \/ \E g \in Geometries : NextTick(g)
    \/ \E g \in Geometries : Scroll(g)
    \/ \E g \in Geometries : Resize(g)
    \/ \E g \in Geometries : ResetGrid(g)
    \/ \E b \in BOOLEAN, g \in Geometries : FetchResolved(b, g)
    \/ FetchRejected
    \/ BeforeDestroy

Spec == Init /\ [][Next]_vars

\* the loading protocol with an updateFunction whose promises all resolve
ResolvingNext ==
    \/ \E g \in Geometries : Mounted(g)
    \/ \E g \in Geometries : NextTick(g)
    \/ \E g \in Geometries : Scroll(g)
    \/ \E g \in Geometries : Resize(g)
    \/ \E g \in Geometries : ResetGrid(g)
    \/ \E b \in BOOLEAN, g \in Geometries : FetchResolved(b, g)
    \/ BeforeDestroy

ResolvingSpec ==
    /\ Init
    /\ [][ResolvingNext]_vars
    /\ WF_vars(\E b \in BOOLEAN, g \in Geometries : FetchResolved(b, g))

\* the getters applied to every items prop and container data of the bounds
PipeInit ==
    /\ LoadInit
    /\ containerData \in PipeContainers
    /\ items \in ItemLists
    /\ stage = "input"
    /\ configData = NoConfig
    /\ layoutData = NoLayout
    /\ renderData = NoRender

PipeNext == GetConfigData \/ GetLayoutData \/ GetRenderData

PipeSpec == PipeInit /\ [][PipeNext]_vars

----------------------------------------------------------------------------
\* Properties of the loading state machine

\* the handlers that do nothing but enter a load attempt
LoadEvents == {"nextTick", "scroll", "resize", "resetGrid"}

\* C1: single-flight.  At most one call of updateFunction is outstanding at
\* any time, and a load attempt entered from mount, scroll, resize or
\* resetGrid while updateLock is true does not call updateFunction and leaves
\* updateLock and bottomReached as they were on entry to loadMoreDataAsync
\* (resetGrid has cleared bottomReached before it enters).
SingleFlight ==
    /\ [](outstanding <= 1)
    /\ [][(updateLock /\ lastEvent' \in LoadEvents) =>
            /\ ~invoked'
            /\ outstanding' = outstanding
            /\ callCount' = callCount
            /\ updateLock'
            /\ bottomReached' =
                 (IF lastEvent' = "resetGrid" THEN FALSE ELSE bottomReached)]_vars

\* C1 witness: a scroll or resize arrived during a fetch, with the trigger
\* condition true and bottomReached false, and started nothing
BlockedByLock ==
    /\ lastEvent \in {"scroll", "resize"}
    /\ updateLock /\ outstanding = 1
    /\ ~bottomReached /\ TriggerReached(containerData)
    /\ ~invoked

\* C2: a rejected updateFunction releases the lock and starts no retry, and
\* then a scroll or resize with the trigger condition true and bottomReached
\* false, while no fetch is outstanding, starts a new fetch.
FailureReleasesLock ==
    [][/\ lastEvent' = "rejected" => (~updateLock' /\ ~invoked')
       /\ ( /\ outstanding = 0
            /\ lastEvent' \in {"scroll", "resize"}
            /\ ~bottomReached
            /\ TriggerReached(containerData') ) => invoked']_vars

\* C3: terminal convergence.  While bottomReached is true, no step other than
\* resetGrid calls updateFunction or makes bottomReached false.
TerminalConvergence ==
    [][(bottomReached /\ lastEvent' # "resetGrid") =>
            (~invoked' /\ bottomReached' /\ callCount' = callCount)]_vars

\* C3 witness: a scroll or resize with the trigger condition true and the
\* lock free found bottomReached true and started nothing
BlockedByBottomReached ==
    /\ lastEvent \in {"scroll", "resize"}
    /\ bottomReached /\ ~updateLock
    /\ TriggerReached(containerData)
    /\ ~invoked

\* scrollTop + containerHeight >= max(0, elementOffset + elementHeight -
\* updateTriggerMargin), on the sampled geometry
TriggerHolds ==
    containerData.scroll.y + containerData.size.height >=
        Max(0, containerData.elementOffset + containerData.elementSize.height - 500)

\* the loading protocol is at rest: nothing in flight, and nothing to start
Quiescent == outstanding = 0 /\ (bottomReached \/ ~TriggerHolds)

\* C8 (as amended): right after a fetch has resolved, without any external
\* event, the trigger condition has been re-evaluated on the fresh sample:
\* another fetch is in flight iff bottomReached is false and the trigger
\* condition holds, and otherwise updateLock is false and nothing is
\* outstanding.  Nothing forces the loop to end.
ReevaluatedAfterResolve ==
    lastEvent = "resolved" =>
        /\ invoked <=> (~bottomReached /\ TriggerHolds)
        /\ updateLock = invoked
        /\ outstanding = (IF invoked THEN 1 ELSE 0)

\* C8 witness: a resolved fetch started the next one with the window bottom
\* exactly on the trigger
RefetchedOnTrigger ==
    /\ lastEvent = "resolved"
    /\ invoked
    /\ containerData.elementSize.height > 500
    /\ containerData.scroll.y + containerData.size.height =
         containerData.elementOffset + containerData.elementSize.height - 500

\* C8 (as stated): if every fetch resolves, a fetch in flight leads to a
\* state with no fetch in flight where the trigger condition is false or
\* bottomReached is true.
FetchLeadsToQuiescent == (outstanding > 0) ~> Quiescent

----------------------------------------------------------------------------
\* Properties of the computed pipeline

Configured == stage \in {"config", "layout", "render"}

LaidOut == stage \in {"layout", "render"}

Cells == layoutData.cells

\* C4: every Config computed by computeConfigData has columnCount >= 1.
ColumnCountAtLeastOne == Configured => configData.columnCount >= 1

\* C5: packing validity.  With columnCount >= 1 every cell has
\* 1 <= columnNumber <= columnCount and
\* columnNumber + columnSpan - 1 <= columnCount, columnSpan being the clipped
\* span.
PackingValidity ==
    LaidOut =>
        \A i \in 1..Len(Cells) :
            /\ 1 <= Cells[i].columnNumber
            /\ Cells[i].columnNumber <= configData.columnCount
            /\ Cells[i].columnNumber + Cells[i].columnSpan - 1 <= configData.columnCount

\* C5 witness: a full-row item (columnSpan <= 0) that does not start its row
\* was clipped to the columns left in the row
ClippedInsideRow ==
    /\ LaidOut
    /\ \E i \in 1..Len(Cells) :
          /\ items[i].columnSpan < 1
          /\ Cells[i].columnNumber > 1
          /\ Cells[i].columnSpan < configData.columnCount
          /\ Cells[i].columnNumber + Cells[i].columnSpan - 1 = configData.columnCount

\* the cells of the row of the last cell
LastRowCells == {i \in 1..Len(Cells) : Cells[i].rowNumber = Cells[Len(Cells)].rowNumber}

\* the largest height among the cells of the last row
LastRowMaxHeight ==
    CHOOSE m \in {Cells[i].height : i \in LastRowCells} :
        \A i \in LastRowCells : Cells[i].height <= m

\* C6: total height.  totalHeight is the offset of the last row plus the
\* largest cell height of that row (0 without cells), and with all cells in
\* one row it is the same for every gridGap.
TotalHeightCorrect ==
    LaidOut =>
        /\ layoutData.totalHeight =
             (IF Cells = <<>> THEN 0
              ELSE Cells[Len(Cells)].offset + LastRowMaxHeight)
        /\ (\A i \in 1..Len(Cells) : Cells[i].rowNumber = 1) =>
              \A gap \in {0, 5, 10, 20} :
                 computeLayoutData([configData EXCEPT !.gridGap = gap]).totalHeight
                    = layoutData.totalHeight

\* the closed intervals [lo1, hi1] and [lo2, hi2] have a point in common
Intersects(lo1, hi1, lo2, hi2) ==
    lo1 <= hi1 /\ lo2 <= hi2 /\ Max(lo1, lo2) <= Min(hi1, hi2)

\* the interval of the cell meets the band of the window
InBand(cell) ==
    Intersects(containerData.elementOffset + cell.offset,
               containerData.elementOffset + cell.offset + cell.height,
               containerData.scroll.y - configData.windowMargin,
               containerData.scroll.y + containerData.size.height
                   + configData.windowMargin)

\* C7: windowing.  cellsToRender is, in packing order, exactly the cells
\* whose interval [elementOffset + offset, elementOffset + offset + height]
\* intersects [scrollTop - windowMargin,
\* scrollTop + containerHeight + windowMargin].
WindowingCorrect ==
    stage = "render" => renderData.cellsToRender = SelectSeq(Cells, InBand)

\* C9: with columnCount >= 1, an item of natural width > 0 and natural
\* height >= 0 gets a height >= 0 from computeConfigData and from
\* computeLayoutData, whatever its columnSpan.
HeightsNonNegative ==
    (LaidOut /\ configData.columnCount >= 1) =>
        \A i \in 1..Len(items) :
            (items[i].width > 0 /\ items[i].height >= 0) =>
                /\ configData.entries[i].height >= 0
                /\ Cells[i].height >= 0

\* C10: with columnCount >= 1, two distinct cells of one row have disjoint
\* column ranges [columnNumber, columnNumber + columnSpan - 1] and the same
\* offset.
NoSharedSlot ==
    LaidOut =>
        \A i, j \in 1..Len(Cells) :
            (i < j /\ Cells[i].rowNumber = Cells[j].rowNumber) =>
                /\ \/ Cells[i].columnNumber + Cells[i].columnSpan - 1 < Cells[j].columnNumber
                   \/ Cells[j].columnNumber + Cells[j].columnSpan - 1 < Cells[i].columnNumber
                /\ Cells[i].offset = Cells[j].offset

\* C10 witness: a cell of two columns or more shares its row with the next
\* cell
MultiColumnCellSharesRow ==
    /\ LaidOut
    /\ \E i \in 1..(Len(Cells) - 1) :
          /\ Cells[i].columnSpan >= 2
          /\ Cells[i + 1].rowNumber = Cells[i].rowNumber

====
